---- MODULE Spec2Model ----
(***************************************************************************)
(* Model of the room synchronization engine of the multiplayer server:     *)
(* MultiplayerRoom (src/multiplayer.ts), the match history it feeds         *)
(* (src/resultsStore.ts) and the WebSocket handlers that drive it           *)
(* (src/index.ts).  One step of the model is one callback of the event      *)
(* loop: a connection being admitted, a message, a close notification, a    *)
(* transport going down, or the forced-finish timer firing.                 *)
(***************************************************************************)
EXTENDS Integers, Sequences, FiniteSets, TLC

\* ------------------------------------------------------------------ values

\* null / undefined: an unset role, no level, a missing command field.
None == "none"

\* Profile identities that connect to the room.
Ids == {"A", "B", "C"}

\* Connections the server admits over a run (each gets a fresh handle).
MaxConns == 3

\* Messages handled in a run of every command type.
MaxCommands == 2

\* Messages handled in a run of the commands of a round.
MaxRoundCommands == 4

\* Entries the results array may hold before further reports are cut off.
MaxResults == 2

\* Entries the suggestion list may hold before further suggestions are cut off.
MaxSuggestions == 1

\* Records the match history may hold before further finishes are cut off.
MaxHistory == 1

\* Milliseconds the clock advances over a run that lets it advance.
MaxClock == 1

\* Session tickets the room-join request issues over a run.
MaxSessions == 2

Conns == 1..MaxConns

\* The identities and connection handles of the runs that send every command
\* type.
TwoIds == {"A", "B"}
TwoConns == {1, 2}

\* Timer handles setTimeout can hand out.
TimerHandles == {"t1", "t2"}

Scores == {100, 200}

\* The result payloads of finishGameplay: a numeric arcadeScore, or an object
\* without one (result.arcadeScore is undefined).
ResultPayloads == [arcadeScore : Scores] \cup {[grade |-> "pass"]}

Levels == {"L1"}
RoomStatuses == {"selecting", "preparing", "playing"}
UserStatuses == {"waiting", "skipped", "playing"}
AutoExits == {"off", "pass"}

VARIABLES
    users,               \* this.users: sequence of [id, conn, status]
    master,              \* this.master
    lead,                \* this.lead
    status,              \* this.status
    level,               \* this.level
    levelOptions,        \* this.levelOptions
    suggestions,         \* this.suggestions
    autoExit,            \* this.autoExit
    scoreboardSections,  \* this.scoreboardSections
    results,             \* this.results
    forceFinishTimer,    \* this.forceFinishTimer: None or a timer handle
    pendingTimers,       \* handles of the timers that are armed and have not fired
    history,             \* resultsStore.history (newest first)
    conns,               \* the WebSocket of every admitted connection
    crashed,             \* the process died of an uncaught exception
    sent,                \* messages delivered by the last step, in order
    lastOp,              \* the callback the last step ran
    nCommands,           \* messages handled so far, where the run counts them
    now,                 \* Date.now(): the clock's reading, in milliseconds
    roundStates,         \* the round identifiers broadcast so far
    sessions,            \* the sessions map: ticket to what the room-join request stored
    view                 \* what the client of each connection takes status, master and lead to be

roomVars == <<users, master, lead, status, level, levelOptions, suggestions,
              autoExit, scoreboardSections, results, forceFinishTimer,
              pendingTimers, history>>

vars == <<users, master, lead, status, level, levelOptions, suggestions,
          autoExit, scoreboardSections, results, forceFinishTimer,
          pendingTimers, history, conns, crashed, sent, lastOp, nCommands,
          now, roundStates, sessions, view>>

\* ------------------------------------------------------------------ helpers

\* u.ws.readyState === WebSocket.OPEN
IsOpen(cs, c) == cs[c].state = "open"

\* users.find(u => u.profile.id === userId) !== undefined
HasUser(us, userId) == \E i \in 1..Len(us) : us[i].id = userId

\* findIndex used without its -1 check: splice(-1, 1) takes the last entry.
FindIndexUnchecked(us, userId) ==
    IF HasUser(us, userId)
    THEN CHOOSE i \in 1..Len(us) : us[i].id = userId
    ELSE Len(us)

\* users.findIndex(u => u.profile.id === userId); 0 stands for -1
FindIndex(us, userId) ==
    IF HasUser(us, userId)
    THEN CHOOSE i \in 1..Len(us) :
            us[i].id = userId /\ \A j \in 1..(i - 1) : us[j].id # userId
    ELSE 0

\* The public payload of a participant: the authentication and signature of
\* the session its connection was admitted with.
RoomUser(u) == [authentication |-> <<"auth", u.id>>, signature |-> <<"sig", u.id>>]

\* profile.name of the profile with this id
ProfileName(userId) == [A |-> "Alice", B |-> "Bob", C |-> "Carol"][userId]

\* The room's fields as one record, for the code that reads them mid-handler.
Room ==
    [status |-> status, master |-> master, lead |-> lead, level |-> level,
     levelOptions |-> levelOptions, autoExit |-> autoExit,
     suggestions |-> suggestions, scoreboardSections |-> scoreboardSections,
     results |-> results]

EmptySection(icon) == [title |-> "#SCOREBOARD", icon |-> icon, scores |-> <<>>]

\* The full snapshot sendUpdate builds from the room and a participant list.
UpdateEvent(rm, allUsers) ==
    [type |-> "update",
     status |-> rm.status,
     master |-> rm.master,
     lead |-> rm.lead,
     level |-> rm.level,
     levelOptions |-> [i \in 1..Len(rm.levelOptions) |->
                          [index |-> i - 1, value |-> rm.levelOptions[i].value]],
     autoExit |-> rm.autoExit,
     suggestions |-> rm.suggestions,
     scoreboardSections |-> IF Len(rm.scoreboardSections) > 0
                            THEN rm.scoreboardSections
                            ELSE <<EmptySection("")>>,
     results |-> rm.results,
     users |-> [i \in 1..Len(allUsers) |-> RoomUser(allUsers[i])],
     userStatuses |-> [i \in 1..Len(allUsers) |->
                          [userId |-> allUsers[i].id, status |-> allUsers[i].status]]]

\* ws.send(message): delivered when the socket is open, dropped otherwise.
Send(cs, c, event) ==
    IF IsOpen(cs, c) THEN <<[to |-> c, ev |-> event]>> ELSE <<>>

\* sendUpdate(ws, userId, newUserEntry?)
SendUpdate(cs, c, rm, allUsers) == Send(cs, c, UpdateEvent(rm, allUsers))

\* broadcast() without its readyState check.
BroadcastTargetAnyState(cs, u, excludeUserId) == u.id # excludeUserId

\* Whether broadcast() sends to participant u.
BroadcastTarget(cs, u, excludeUserId) ==
    u.id # excludeUserId /\ IsOpen(cs, u.conn)

\* broadcast(event, excludeUserId?): one send per participant, in list order.
Broadcast(cs, us, event, excludeUserId) ==
    LET tgt == SelectSeq(us, LAMBDA u : BroadcastTarget(cs, u, excludeUserId))
    IN  [i \in 1..Len(tgt) |-> [to |-> tgt[i].conn, ev |-> event]]

\* broadcastUpdate(): the full snapshot to every participant with an open socket.
BroadcastUpdate(cs, us, rm) ==
    LET tgt == SelectSeq(us, LAMBDA u : IsOpen(cs, u.conn))
    IN  [i \in 1..Len(tgt) |-> [to |-> tgt[i].conn, ev |-> UpdateEvent(rm, us)]]

\* ------------------------------------------------------------------ addUser

\* addUser without the "replace connection" branch.
AddUserKeep(us, userId) == us

\* The participant list after the "replace connection" branch.
AddUserReplace(us, userId) == SelectSeq(us, LAMBDA u : u.id # userId)

NewUserEntry(userId, c) == [id |-> userId, conn |-> c, status |-> "waiting"]

\* masterChanged / leadChanged: the role is unset (null or undefined).
RoleUnset(role) == role = None

\* addUser broadcasting to everyone, the joiner included.
AddUserExcludeNobody(userId) == None

\* The identity addUser's broadcasts leave out.
AddUserExclude(userId) == userId

\* The join snapshot built before the joiner takes the roles that are unset.
JoinSnapshotRoomBeforeRoles(rm, m1, l1) == rm

\* The room the join snapshot is built from: the roles are assigned first.
JoinSnapshotRoom(rm, m1, l1) == [rm EXCEPT !.master = m1, !.lead = l1]

\* room.addUser(roomUser, profile, ws) for connection c of identity userId.
AddUserEffect(userId, c, cs) ==
    LET us1 == AddUserReplace(users, userId)
        entry == NewUserEntry(userId, c)
        masterChanged == RoleUnset(master)
        leadChanged == RoleUnset(lead)
        m1 == IF masterChanged THEN userId ELSE master
        l1 == IF leadChanged THEN userId ELSE lead
        rm == JoinSnapshotRoom(Room, m1, l1)
        us2 == Append(us1, entry)
        ex == AddUserExclude(userId)
    IN  /\ users' = us2
        /\ master' = m1
        /\ lead' = l1
        /\ sent' = SendUpdate(cs, c, rm, Append(us1, entry))
                   \o Broadcast(cs, us2, [type |-> "addUser", user |-> RoomUser(entry)], ex)
                   \o (IF masterChanged
                       THEN Broadcast(cs, us2, [type |-> "updateMaster", master |-> m1], ex)
                       ELSE <<>>)
                   \o (IF leadChanged
                       THEN Broadcast(cs, us2, [type |-> "updateLead", lead |-> l1], ex)
                       ELSE <<>>)
        /\ UNCHANGED <<status, level, levelOptions, suggestions, autoExit,
                       scoreboardSections, results, forceFinishTimer,
                       pendingTimers, history>>

\* ------------------------------------------------------------------ removeUser

\* The role handed to the last remaining participant instead of the first.
ReassignRoleToLast(role, us, userId) ==
    IF role = userId
    THEN (IF Len(us) > 0 THEN us[Len(us)].id ELSE None)
    ELSE role

\* The role after its holder userId left and us remain.
ReassignRole(role, us, userId) ==
    IF role = userId
    THEN (IF Len(us) > 0 THEN us[1].id ELSE None)
    ELSE role

\* The participant list without the entry at index i (splice(i, 1)).
Splice(us, i) == [j \in 1..(Len(us) - 1) |-> IF j < i THEN us[j] ELSE us[j + 1]]

\* room.removeUser(userId)
RemoveUserEffect(userId, cs) ==
    LET userIndex == FindIndex(users, userId)
    IN  IF userIndex = 0
        THEN /\ sent' = <<>>
             /\ UNCHANGED roomVars
        ELSE LET removedEntry == users[userIndex]
                 us1 == Splice(users, userIndex)
                 m1 == ReassignRole(master, us1, userId)
                 l1 == ReassignRole(lead, us1, userId)
             IN  /\ users' = us1
                 /\ master' = m1
                 /\ lead' = l1
                 /\ sent' = (IF master = userId
                             THEN Broadcast(cs, us1, [type |-> "updateMaster", master |-> m1], None)
                             ELSE <<>>)
                            \o (IF lead = userId
                                THEN Broadcast(cs, us1, [type |-> "updateLead", lead |-> l1], None)
                                ELSE <<>>)
                            \o Broadcast(cs, us1, [type |-> "removeUser",
                                                   user |-> RoomUser(removedEntry)], None)
                 /\ UNCHANGED <<status, level, levelOptions, suggestions, autoExit,
                                scoreboardSections, results, forceFinishTimer,
                                pendingTimers, history>>

\* ------------------------------------------------------------------ match history

\* typeof title === 'string' ? title : (title.en || title.ru || 'Room'), for
\* the room registered at start-up.
ResolvedTitle == "Test Public Lobby"

\* The history keeps at most this many records.
HistoryLimit == 1000

\* A record whose results array is still the room's results array follows
\* every push and sort of that array (live); `this.results = []` detaches them.
SyncHistory(h, rs) ==
    [i \in 1..Len(h) |-> IF h[i].live THEN [h[i] EXCEPT !.results = rs] ELSE h[i]]

DetachHistory(h) == [i \in 1..Len(h) |-> [h[i] EXCEPT !.live = FALSE]]

\* Whether addMatch returns without recording.
AddMatchSkips(lv, rs) == lv = None \/ Len(rs) = 0

\* resultsStore.addMatch(roomName, level, results)
AddMatch(h, roomName, lv, rs) ==
    IF AddMatchSkips(lv, rs)
    THEN h
    ELSE LET h1 == <<[id |-> ToString(now), timestamp |-> now,
                      roomName |-> roomName, level |-> lv, results |-> rs,
                      live |-> TRUE]>> \o h
         IN  IF Len(h1) > HistoryLimit THEN SubSeq(h1, 1, HistoryLimit) ELSE h1

\* ------------------------------------------------------------------ finishMatch

\* s with r put behind every entry whose score is not smaller (s is sorted).
RECURSIVE InsertByScore(_, _)
InsertByScore(s, r) ==
    IF s = <<>> THEN <<r>>
    ELSE IF s[1].result.arcadeScore >= r.result.arcadeScore
         THEN <<s[1]>> \o InsertByScore(Tail(s), r)
         ELSE <<r>> \o s

\* updateScoreboard without its sort.
SortSkipped(rs) == rs

\* results.sort((a, b) => b.result.arcadeScore - a.result.arcadeScore) on
\* numeric scores: descending, entries of equal score in their old order.
RECURSIVE SortByScore(_)
SortByScore(rs) ==
    IF rs = <<>> THEN <<>>
    ELSE InsertByScore(SortByScore(SubSeq(rs, 1, Len(rs) - 1)), rs[Len(rs)])

HasScore(r) == "arcadeScore" \in DOMAIN r.result

\* The orders the in-place sort can leave.  A comparison with a missing score
\* is NaN, which counts as "equal": if every score is missing nothing moves;
\* if some are, the comparator is inconsistent and the order is
\* implementation-defined.
SortOutcomes(rs) ==
    IF \A i \in 1..Len(rs) : HasScore(rs[i]) THEN {SortByScore(rs)}
    ELSE IF \A i \in 1..Len(rs) : ~HasScore(rs[i]) THEN {rs}
    ELSE {[i \in 1..Len(rs) |-> rs[p[i]]] : p \in Permutations(1..Len(rs))}

\* r.result.arcadeScore.toString() throws on a missing score.
ScoreboardThrows(rs) == \E i \in 1..Len(rs) : ~HasScore(rs[i])

\* The section updateScoreboard builds from the sorted results.
ScoreboardOf(rs) ==
    <<[title |-> "#SCOREBOARD", icon |-> "crown",
       scores |-> [i \in 1..Len(rs) |->
                     [userId |-> rs[i].userId,
                      value |-> ToString(rs[i].result.arcadeScore)]]]>>

\* The clearTimeout call left out.
ClearTimerNever(pend, fft) == pend

\* clearTimeout(forceFinishTimer) when it is set.
ClearTimer(pend, fft) == IF fft # None THEN pend \ {fft} ELSE pend

\* finishMatch(): the states it can leave, as records.  threw tells that
\* updateScoreboard threw, which leaves everything after it undone.
FinishMatchOutcomes(cs, us, rm, fft, pend, h) ==
    LET pend1 == ClearTimer(pend, fft)
        h1 == AddMatch(h, ResolvedTitle, rm.level, rm.results)
    IN  { IF ScoreboardThrows(rs1)
          THEN [threw |-> TRUE, users |-> us, status |-> rm.status,
                results |-> rs1, scoreboardSections |-> rm.scoreboardSections,
                forceFinishTimer |-> None, pendingTimers |-> pend1,
                history |-> SyncHistory(h1, rs1), sent |-> <<>>]
          ELSE LET us1 == [i \in 1..Len(us) |-> [us[i] EXCEPT !.status = "waiting"]]
                   sb == ScoreboardOf(rs1)
                   rm1 == [rm EXCEPT !.results = rs1, !.scoreboardSections = sb,
                                     !.status = "selecting"]
               IN  [threw |-> FALSE, users |-> us1, status |-> "selecting",
                    results |-> rs1, scoreboardSections |-> sb,
                    forceFinishTimer |-> None, pendingTimers |-> pend1,
                    history |-> SyncHistory(h1, rs1),
                    sent |-> BroadcastUpdate(cs, us1, rm1)]
          : rs1 \in SortOutcomes(rm.results) }

\* ------------------------------------------------------------------ handleCommand

\* The master check left out.
IsMasterAlways(m, userId) == TRUE

\* updateLevel checking the sender and not the room status.
CanUpdateLevelAnyStatus(l, st, userId) == l = userId

\* The authority checks of handleCommand.
IsMaster(m, userId) == m = userId

IsLeadOrMaster(l, m, userId) == l = userId \/ m = userId

CanUpdateLevel(l, st, userId) == l = userId /\ st = "selecting"

\* this.isSuggestionsLocked: set at construction, assigned nowhere.
IsSuggestionsLocked == FALSE

\* if (command.result): a command without a result field is skipped.
HasResult(command) == "result" \in DOMAIN command

\* The users list after updateUserStatus's `if (user) user.status = status`.
SetUserStatus(us, userId, st) ==
    LET i == FindIndex(us, userId)
    IN  IF i = 0 THEN us ELSE [us EXCEPT ![i].status = st]

\* updateUserStatus(userId, status)
UpdateUserStatusEffect(userId, st, cs) ==
    /\ users' = SetUserStatus(users, userId, st)
    /\ sent' = Broadcast(cs, users', [type |-> "updateUserStatus",
                                      userStatus |-> [userId |-> userId, status |-> st]], None)
    /\ UNCHANGED <<master, lead, status, level, levelOptions, suggestions, autoExit,
                   scoreboardSections, results, forceFinishTimer, pendingTimers,
                   history>>

\* A round start that leaves the skipped participants skipped.
ResetSkippedNobody(us) == us

\* users.forEach(u => { if (u.status === 'skipped') u.status = 'waiting' })
ResetSkipped(us) ==
    [i \in 1..Len(us) |->
        IF us[i].status = "skipped" THEN [us[i] EXCEPT !.status = "waiting"] ELSE us[i]]

\* 'round-' + Date.now()
RoundState(t) == "round-" \o ToString(t)

\* The startRound event of a round started at clock reading t (its seed, a
\* Math.random() draw no code reads back, is left out).
StartRoundEvent(t) == [type |-> "startRound", state |-> RoundState(t)]

\* The handle setTimeout returns: one no live or remembered timer has.
FreshTimers(pend, fft) == TimerHandles \ (pend \cup {fft})

\* case 'updateStatus'
UpdateStatusEffect(userId, command, cs) ==
    IF IsMaster(master, userId)
    THEN LET st == command.status
             ev == Broadcast(cs, users, [type |-> "updateStatus", status |-> st], None)
         IN  /\ status' = st
             /\ IF st = "playing"
                THEN LET pend1 == ClearTimer(pendingTimers, forceFinishTimer)
                     IN  /\ results' = <<>>
                         /\ history' = DetachHistory(history)
                         /\ users' = ResetSkipped(users)
                         /\ sent' = ev \o Broadcast(cs, users', StartRoundEvent(now), None)
                         /\ FreshTimers(pend1, forceFinishTimer) # {}
                         /\ forceFinishTimer' = CHOOSE t \in FreshTimers(pend1, forceFinishTimer) : TRUE
                         /\ pendingTimers' = pend1 \cup {forceFinishTimer'}
                ELSE IF st = "selecting"
                THEN /\ pendingTimers' = ClearTimer(pendingTimers, forceFinishTimer)
                     /\ forceFinishTimer' = None
                     /\ sent' = ev
                     /\ UNCHANGED <<results, history, users>>
                ELSE /\ sent' = ev
                     /\ UNCHANGED <<results, history, users, forceFinishTimer,
                                    pendingTimers>>
             /\ UNCHANGED <<master, lead, level, levelOptions, suggestions, autoExit,
                            scoreboardSections>>
    ELSE /\ sent' = <<>>
         /\ UNCHANGED roomVars

\* The participants still playing without a recorded result.
ActivePlayers(us, rs) ==
    SelectSeq(us, LAMBDA u : u.status = "playing"
                             /\ ~\E i \in 1..Len(rs) : rs[i].userId = u.id)

\* The results array after finishGameplay's push.
PushResult(rs, r) == Append(rs, r)

\* case 'finishGameplay'
FinishGameplayEffect(userId, command, cs) ==
    IF HasResult(command)
    THEN LET userName == IF HasUser(users, userId) THEN ProfileName(userId) ELSE "Unknown"
             r == [userId |-> userId, result |-> command.result, userName |-> userName]
             rs1 == PushResult(results, r)
             h1 == SyncHistory(history, rs1)
             ev == Broadcast(cs, users, [type |-> "addResult", result |-> r], None)
         IN  IF Len(ActivePlayers(users, rs1)) = 0
             THEN \E o \in FinishMatchOutcomes(cs, users, [Room EXCEPT !.results = rs1],
                                               forceFinishTimer, pendingTimers, h1) :
                    /\ users' = o.users
                    /\ status' = o.status
                    /\ results' = o.results
                    /\ scoreboardSections' = o.scoreboardSections
                    /\ forceFinishTimer' = o.forceFinishTimer
                    /\ pendingTimers' = o.pendingTimers
                    /\ history' = o.history
                    /\ sent' = ev \o o.sent
                    /\ UNCHANGED <<master, lead, level, levelOptions, suggestions,
                                   autoExit>>
             ELSE /\ results' = rs1
                  /\ history' = h1
                  /\ sent' = ev \o (IF HasUser(users, userId)
                                    THEN SendUpdate(cs, users[FindIndex(users, userId)].conn,
                                                    [Room EXCEPT !.results = rs1], users)
                                    ELSE <<>>)
                  /\ UNCHANGED <<users, master, lead, status, level, levelOptions,
                                 suggestions, autoExit, scoreboardSections,
                                 forceFinishTimer, pendingTimers>>
    ELSE /\ sent' = <<>>
         /\ UNCHANGED roomVars

\* case 'updateLevel'
UpdateLevelEffect(userId, command, cs) ==
    IF CanUpdateLevel(lead, status, userId)
    THEN /\ level' = command.level
         /\ levelOptions' = <<>>
         /\ sent' = Broadcast(cs, users, [type |-> "updateLevel", level |-> level'], None)
         /\ UNCHANGED <<users, master, lead, status, suggestions, autoExit,
                        scoreboardSections, results, forceFinishTimer, pendingTimers,
                        history>>
    ELSE /\ sent' = <<>>
         /\ UNCHANGED roomVars

\* case 'addSuggestion'
AddSuggestionEffect(userId, command, cs) ==
    IF ~IsSuggestionsLocked
    THEN /\ suggestions' = Append(suggestions, [userId |-> userId, level |-> command.level])
         /\ sent' = Broadcast(cs, users, [type |-> "updateSuggestions",
                                          suggestions |-> suggestions'], None)
         /\ UNCHANGED <<users, master, lead, status, level, levelOptions, autoExit,
                        scoreboardSections, results, forceFinishTimer, pendingTimers,
                        history>>
    ELSE /\ sent' = <<>>
         /\ UNCHANGED roomVars

\* case 'clearSuggestions'
ClearSuggestionsEffect(userId, cs) ==
    IF IsLeadOrMaster(lead, master, userId)
    THEN /\ suggestions' = <<>>
         /\ sent' = Broadcast(cs, users, [type |-> "clearSuggestions"], None)
         /\ UNCHANGED <<users, master, lead, status, level, levelOptions, autoExit,
                        scoreboardSections, results, forceFinishTimer, pendingTimers,
                        history>>
    ELSE /\ sent' = <<>>
         /\ UNCHANGED roomVars

\* case 'updateAutoExit'
UpdateAutoExitEffect(userId, command, cs) ==
    IF IsLeadOrMaster(lead, master, userId)
    THEN /\ autoExit' = command.autoExit
         /\ sent' = Broadcast(cs, users, [type |-> "updateAutoExit",
                                          autoExit |-> autoExit'], None)
         /\ UNCHANGED <<users, master, lead, status, level, levelOptions, suggestions,
                        scoreboardSections, results, forceFinishTimer, pendingTimers,
                        history>>
    ELSE /\ sent' = <<>>
         /\ UNCHANGED roomVars

\* The value case 'updateMaster' / 'updateLead' stores: whatever the command names.
RoleTarget(us, target) == target

\* case 'updateMaster'
UpdateMasterEffect(userId, command, cs) ==
    IF IsMaster(master, userId)
    THEN /\ master' = RoleTarget(users, command.master)
         /\ sent' = Broadcast(cs, users, [type |-> "updateMaster", master |-> master'], None)
         /\ UNCHANGED <<users, lead, status, level, levelOptions, suggestions, autoExit,
                        scoreboardSections, results, forceFinishTimer, pendingTimers,
                        history>>
    ELSE /\ sent' = <<>>
         /\ UNCHANGED roomVars

\* case 'updateLead'
UpdateLeadEffect(userId, command, cs) ==
    IF IsMaster(master, userId)
    THEN /\ lead' = RoleTarget(users, command.lead)
         /\ sent' = Broadcast(cs, users, [type |-> "updateLead", lead |-> lead'], None)
         /\ UNCHANGED <<users, master, status, level, levelOptions, suggestions, autoExit,
                        scoreboardSections, results, forceFinishTimer, pendingTimers,
                        history>>
    ELSE /\ sent' = <<>>
         /\ UNCHANGED roomVars

\* case 'resetScoreboard'
ResetScoreboardEffect(userId, cs) ==
    IF IsMaster(master, userId)
    THEN /\ scoreboardSections' = <<EmptySection("crown")>>
         /\ sent' = Broadcast(cs, users, [type |-> "updateScoreboardSections",
                                          scoreboardSections |-> scoreboardSections'], None)
         /\ UNCHANGED <<users, master, lead, status, level, levelOptions, suggestions,
                        autoExit, results, forceFinishTimer, pendingTimers, history>>
    ELSE /\ sent' = <<>>
         /\ UNCHANGED roomVars

\* case 'addChatMessage'
AddChatMessageEffect(userId, command, cs) ==
    /\ sent' = Broadcast(cs, users, [type |-> "addChatMessage",
                                     message |-> [text |-> command.message,
                                                  userId |-> userId]], None)
    /\ UNCHANGED roomVars

\* room.handleCommand(userId, command)
HandleCommandEffect(userId, command, cs) ==
    CASE command.type = "addChatMessage" -> AddChatMessageEffect(userId, command, cs)
      [] command.type = "updateUserStatus" -> UpdateUserStatusEffect(userId, command.status, cs)
      [] command.type = "updateStatus" -> UpdateStatusEffect(userId, command, cs)
      [] command.type = "updateLevel" -> UpdateLevelEffect(userId, command, cs)
      [] command.type = "addSuggestion" -> AddSuggestionEffect(userId, command, cs)
      [] command.type = "clearSuggestions" -> ClearSuggestionsEffect(userId, cs)
      [] command.type = "updateAutoExit" -> UpdateAutoExitEffect(userId, command, cs)
      [] command.type = "updateMaster" -> UpdateMasterEffect(userId, command, cs)
      [] command.type = "updateLead" -> UpdateLeadEffect(userId, command, cs)
      [] command.type = "resetScoreboard" -> ResetScoreboardEffect(userId, cs)
      [] command.type = "startGameplay" -> UpdateUserStatusEffect(userId, "playing", cs)
      [] command.type = "finishGameplay" -> FinishGameplayEffect(userId, command, cs)
      [] OTHER -> /\ sent' = <<>>
                  /\ UNCHANGED roomVars

\* The commands clients send, by type.
ChatCommands == [type : {"addChatMessage"}, message : {"hi"}]
UserStatusCommands ==
    [type : {"updateUserStatus"}, status : UserStatuses] \cup [type : {"startGameplay"}]
StatusCommands == [type : {"updateStatus"}, status : RoomStatuses]
LevelCommands == [type : {"updateLevel"}, level : Levels]
SuggestionCommands ==
    [type : {"addSuggestion"}, level : Levels] \cup [type : {"clearSuggestions"}]
AutoExitCommands == [type : {"updateAutoExit"}, autoExit : AutoExits]
RoleCommands ==
    [type : {"updateMaster"}, master : Ids \cup {None}]
    \cup [type : {"updateLead"}, lead : Ids \cup {None}]
ScoreboardCommands == [type : {"resetScoreboard"}]
FinishCommands ==
    [type : {"finishGameplay"}, result : ResultPayloads] \cup [type : {"finishGameplay"}]
UnknownCommands == [type : {"unknown"}]

\* ------------------------------------------------------------------ the server

\* The rooms map: the one room created at start-up.
Rooms == {"test-room"}

\* crypto.randomUUID(): the n-th ticket issued.
SessionId(n) == "session-" \o ToString(n)

Tickets == {SessionId(n) : n \in 1..MaxSessions}

\* Request bodies of the room-join request: a profile of an identity, or JSON
\* without userProfile.
Bodies(ids) == [userProfile : [id : ids]] \cup {[other |-> "x"]}

\* The Sonolus-Signature header: missing, Sonolus's signature of the body it
\* comes with, or anything else.
Signatures == {None, "sonolus", "forged"}

\* verifySonolusSignature(body, signature): whether the signature is
\* Sonolus's signature of the body; false when verification throws.
VerifySonolusSignature(body, signature) == signature = "sonolus"

\* Buffer.toString("base64") and Buffer.from(s, "base64").toString() with JSON.parse.
ToBase64(body) == <<"base64", body>>
FromBase64(authentication) == authentication[2]

\* The events the messages s deliver to connection c, in order.
EventsTo(s, c) ==
    LET ms == SelectSeq(s, LAMBDA m : m.to = c)
    IN  [i \in 1..Len(ms) |-> ms[i].ev]

\* What a full snapshot says of status, master and lead.
ViewOf(event) == [status |-> event.status, master |-> event.master, lead |-> event.lead]

\* A client's view v (none before its first snapshot) after it got the event:
\* a snapshot replaces it, updateStatus, updateMaster and updateLead change
\* one field of it, every other event leaves it.
ApplyEvent(v, event) ==
    IF event.type = "update" THEN <<ViewOf(event)>>
    ELSE IF v = <<>> THEN v
    ELSE IF event.type = "updateStatus" THEN <<[v[1] EXCEPT !.status = event.status]>>
    ELSE IF event.type = "updateMaster" THEN <<[v[1] EXCEPT !.master = event.master]>>
    ELSE IF event.type = "updateLead" THEN <<[v[1] EXCEPT !.lead = event.lead]>>
    ELSE v

RECURSIVE ApplyEvents(_, _)
ApplyEvents(v, events) ==
    IF events = <<>> THEN v ELSE ApplyEvents(ApplyEvent(v, events[1]), Tail(events))

\* The clients' views after the step's messages arrived; the view of a
\* connection that is not open, or that no participant entry holds, is dropped.
NextView(vw, cs, us, s) ==
    [c \in Conns |->
        IF IsOpen(cs, c) /\ \E i \in 1..Len(us) : us[i].conn = c
        THEN ApplyEvents(vw[c], EventsTo(s, c))
        ELSE <<>>]

Init ==
    /\ users = <<>>
    /\ master = None
    /\ lead = None
    /\ status = "selecting"
    /\ level = None
    /\ levelOptions = <<>>
    /\ suggestions = <<>>
    /\ autoExit = "off"
    /\ scoreboardSections = <<>>
    /\ results = <<>>
    /\ forceFinishTimer = None
    /\ pendingTimers = {}
    /\ history = <<>>
    /\ conns = [c \in Conns |-> [owner |-> None, state |-> "unused"]]
    /\ crashed = FALSE
    /\ sent = <<>>
    /\ lastOp = [op |-> "init"]
    /\ nCommands = 0
    /\ now = 0
    /\ roundStates = {}
    /\ sessions = [t \in Tickets |-> <<>>]
    /\ view = [c \in Conns |-> <<>>]

\* The handle of the next admitted connection.
FreshConn(c) ==
    /\ conns[c].state = "unused"
    /\ \A d \in Conns : conns[d].state = "unused" => c <= d

\* The model's cut-offs on the collections that grow without limit.
WithinBounds ==
    /\ Len(results') <= MaxResults
    /\ Len(suggestions') <= MaxSuggestions
    /\ Len(history') <= MaxHistory

\* upgrade handler, admitted connection: room.addUser(roomUser, profile, ws)
Connect(userId, handles) ==
    /\ ~crashed
    /\ \E c \in handles :
        /\ FreshConn(c)
        /\ conns' = [conns EXCEPT ![c] = [owner |-> userId, state |-> "open"]]
        /\ AddUserEffect(userId, c, conns')
        /\ lastOp' = [op |-> "addUser", id |-> userId, conn |-> c,
                       replaced |-> HasUser(users, userId)]
    /\ UNCHANGED <<crashed, nCommands, now, roundStates, sessions>>
    /\ view' = NextView(view, conns', users', sent')

\* The transport of connection c goes down: readyState leaves OPEN; the close
\* event is still to be delivered.
Drop(c) ==
    /\ ~crashed
    /\ conns[c].state = "open"
    /\ conns' = [conns EXCEPT ![c].state = "closing"]
    /\ sent' = <<>>
    /\ lastOp' = [op |-> "drop", conn |-> c]
    /\ UNCHANGED <<roomVars, crashed, nCommands, now, roundStates, sessions>>
    /\ view' = NextView(view, conns', users', sent')

\* ws.on('close'): room.removeUser(profile.id).  The handlers of the socket
\* never run again, so whose it was is forgotten.
Close(c) ==
    /\ ~crashed
    /\ conns[c].state = "closing"
    /\ conns' = [conns EXCEPT ![c] = [owner |-> None, state |-> "closed"]]
    /\ RemoveUserEffect(conns[c].owner, conns')
    /\ lastOp' = [op |-> "removeUser", id |-> conns[c].owner, conn |-> c,
                   found |-> HasUser(users, conns[c].owner)]
    /\ UNCHANGED <<crashed, nCommands, now, roundStates, sessions>>
    /\ view' = NextView(view, conns', users', sent')

\* Whether handleCommand(userId, command) starts a round.
StartsRound(m, userId, command) ==
    command.type = "updateStatus" /\ IsMaster(m, userId) /\ command.status = "playing"

\* POST /sonolus/authenticate: 401 unless the signature verifies; the session
\* it answers with is the profile itself and nothing is stored.
Authenticate(body, signature) ==
    /\ ~crashed
    /\ lastOp' = [op |-> "authenticate",
                   code |-> IF signature = None \/ ~VerifySonolusSignature(body, signature)
                            THEN 401 ELSE 200]
    /\ sent' = <<>>
    /\ UNCHANGED <<roomVars, conns, crashed, nCommands, now, roundStates, sessions, view>>

\* POST /sonolus/rooms/:itemName: 404 for an unknown room, otherwise a new
\* ticket that stores the body and the signature header as they came.
RoomJoin(itemName, body, signature) ==
    /\ ~crashed
    /\ IF itemName \notin Rooms
       THEN /\ lastOp' = [op |-> "roomJoin", room |-> itemName, code |-> 404]
            /\ UNCHANGED sessions
       ELSE LET n == Cardinality({t \in Tickets : sessions[t] # <<>>}) + 1
                sessionId == SessionId(n)
            IN  /\ n <= MaxSessions
                /\ sessions' = [sessions EXCEPT ![sessionId] =
                                    <<[authentication |-> ToBase64(body),
                                       signature |-> IF signature = None THEN ""
                                                     ELSE signature]>>]
                /\ lastOp' = [op |-> "roomJoin", room |-> itemName, code |-> 200,
                               session |-> sessionId]
    /\ sent' = <<>>
    /\ UNCHANGED <<roomVars, conns, crashed, nCommands, now, roundStates, view>>

\* ws.close(code, reason) in the upgrade handler: no handler is registered.
Reject(c, roomId, session, code) ==
    /\ conns' = [conns EXCEPT ![c] = [owner |-> None, state |-> "rejected"]]
    /\ lastOp' = [op |-> "reject", conn |-> c, room |-> roomId, session |-> session,
                   code |-> code]
    /\ sent' = <<>>
    /\ UNCHANGED roomVars

\* server.on('upgrade') for /multiplayer?room=roomId&session=session: the
\* connection is admitted when the room exists, the ticket is in the sessions
\* map and the stored body has a userProfile.
Upgrade(roomId, session, handles) ==
    /\ ~crashed
    /\ \E c \in handles :
        /\ FreshConn(c)
        /\ IF roomId = None \/ roomId \notin Rooms \/ session = None
           THEN Reject(c, roomId, session, 1008)
           ELSE IF session \notin Tickets \/ sessions[session] = <<>>
           THEN Reject(c, roomId, session, 1008)
           ELSE LET sessionData == sessions[session][1]
                    originalBody == FromBase64(sessionData.authentication)
                IN  IF "userProfile" \notin DOMAIN originalBody
                    THEN Reject(c, roomId, session, 1011)
                    ELSE LET userId == originalBody.userProfile.id
                         IN  /\ conns' = [conns EXCEPT ![c] =
                                             [owner |-> userId, state |-> "open"]]
                             /\ AddUserEffect(userId, c, conns')
                             /\ lastOp' = [op |-> "addUser", id |-> userId, conn |-> c,
                                            replaced |-> HasUser(users, userId),
                                            room |-> roomId, session |-> session]
    /\ UNCHANGED <<crashed, nCommands, now, roundStates, sessions>>
    /\ view' = NextView(view, conns', users', sent')

\* ws.on('message'): room.handleCommand(profile.id, command), exceptions caught.
\* A run that counts its messages handles at most limit of them; limit 0
\* stands for a run that does not count.
Message(c, command, limit) ==
    /\ ~crashed
    /\ IF limit > 0
       THEN nCommands < limit /\ nCommands' = nCommands + 1
       ELSE UNCHANGED nCommands
    /\ conns[c].state \in {"open", "closing"}
    /\ HandleCommandEffect(conns[c].owner, command, conns)
    /\ WithinBounds
    /\ roundStates' = IF StartsRound(master, conns[c].owner, command)
                      THEN roundStates \cup {RoundState(now)}
                      ELSE roundStates
    /\ lastOp' = [op |-> "cmd", id |-> conns[c].owner, conn |-> c, cmd |-> command]
    /\ UNCHANGED <<conns, crashed, now, sessions>>
    /\ view' = NextView(view, conns', users', sent')

\* The forced-finish timer fires: the setTimeout callback of updateStatus.
TimerFire(t) ==
    /\ ~crashed
    /\ t \in pendingTimers
    /\ IF status = "playing"
       THEN \E o \in FinishMatchOutcomes(conns, users, Room, forceFinishTimer,
                                         pendingTimers \ {t}, history) :
              /\ users' = o.users
              /\ status' = o.status
              /\ results' = o.results
              /\ scoreboardSections' = o.scoreboardSections
              /\ forceFinishTimer' = o.forceFinishTimer
              /\ pendingTimers' = o.pendingTimers
              /\ history' = o.history
              /\ sent' = o.sent
              /\ crashed' = o.threw
              /\ UNCHANGED <<master, lead, level, levelOptions, suggestions, autoExit>>
       ELSE /\ pendingTimers' = pendingTimers \ {t}
            /\ sent' = <<>>
            /\ UNCHANGED <<users, master, lead, status, level, levelOptions,
                           suggestions, autoExit, scoreboardSections, results,
                           forceFinishTimer, history, crashed>>
    /\ WithinBounds
    /\ lastOp' = [op |-> "timer", timer |-> t]
    /\ UNCHANGED <<conns, nCommands, now, roundStates, sessions>>
    /\ view' = NextView(view, conns', users', sent')

\* A millisecond passes between two callbacks.
Tick ==
    /\ ~crashed
    /\ now < MaxClock
    /\ now' = now + 1
    /\ sent' = <<>>
    /\ lastOp' = [op |-> "tick"]
    /\ UNCHANGED <<roomVars, conns, crashed, nCommands, roundStates, sessions, view>>

AllCommands ==
    ChatCommands \cup UserStatusCommands \cup StatusCommands \cup LevelCommands
    \cup SuggestionCommands \cup AutoExitCommands \cup RoleCommands
    \cup ScoreboardCommands \cup FinishCommands \cup UnknownCommands

\* The callbacks clients of the identities ids cause, over the connection
\* handles given, sending the commands cmds.
Clients(ids, handles, cmds, limit) ==
    \/ \E userId \in ids : Connect(userId, handles)
    \/ \E c \in Conns : Drop(c)
    \/ \E c \in Conns : Close(c)
    \/ \E c \in Conns, command \in cmds : Message(c, command, limit)

Timers == \E t \in TimerHandles : TimerFire(t)

\* Every command type, from two identities over two connections, up to
\* MaxCommands messages.
Next == Clients(TwoIds, TwoConns, AllCommands, MaxCommands) \/ Timers

Spec == Init /\ [][Next]_vars

\* Joins, leaves and role hand-overs of three identities over MaxConns
\* connections, any number of messages.  No round starts, so no timer is armed.
NextRoster == Clients(Ids, Conns, RoleCommands, 0)

SpecRoster == Init /\ [][NextRoster]_vars

\* The commands of a round: its start and end, gameplay reports, the level.
RoundCommands ==
    StatusCommands \cup UserStatusCommands \cup FinishCommands \cup LevelCommands

\* Rounds of two identities over two connections, up to MaxRoundCommands
\* messages.
NextRound == Clients(TwoIds, TwoConns, RoundCommands, MaxRoundCommands) \/ Timers

SpecRound == Init /\ [][NextRound]_vars

\* Status changes of two identities while the clock advances.
NextClock == Clients(TwoIds, TwoConns, StatusCommands, 0) \/ Timers \/ Tick

SpecClock == Init /\ [][NextClock]_vars

\* The query parameters of an upgrade request.
RoomParams == Rooms \cup {"ghost-room", None}
SessionParams == Tickets \cup {"stale-session", None}

\* The join handshake of two identities: authentication, room-join requests
\* with any signature header, upgrade requests with any parameters, and chat
\* over the admitted connections.
NextJoin ==
    \/ \E body \in Bodies(TwoIds), signature \in Signatures : Authenticate(body, signature)
    \/ \E itemName \in Rooms \cup {"ghost-room"}, body \in Bodies(TwoIds),
          signature \in Signatures : RoomJoin(itemName, body, signature)
    \/ \E roomId \in RoomParams, session \in SessionParams : Upgrade(roomId, session, Conns)
    \/ \E c \in Conns : Drop(c)
    \/ \E c \in Conns : Close(c)
    \/ \E c \in Conns, command \in ChatCommands : Message(c, command, 0)

SpecJoin == Init /\ [][NextJoin]_vars

\* ------------------------------------------------------------------ properties

\* The messages of s that go to connection c.
EventsAsMessages(s, c) == SelectSeq(s, LAMBDA m : m.to = c)

\* Whether the messages s hold an event of the given type.
SentType(s, type) == \E k \in 1..Len(s) : s[k].ev.type = type

\* The participants other than userId.
Others(us, userId) == SelectSeq(us, LAMBDA u : u.id # userId)

\* Whether the step into the primed state handled a command of one of the types.
CommandStep(types) == lastOp'.op = "cmd" /\ lastOp'.cmd.type \in types

\* C1: master, if set, is the identity of a current participant, and so is
\* lead, in every reachable state.
C1_RolesReferenceParticipants ==
    /\ master # None => HasUser(users, master)
    /\ lead # None => HasUser(users, lead)

\* C2: a join never changes a role that is set, and a join into a room
\* without participants leaves both roles with the joiner.
C2_JoinKeepsOrTakesRoles ==
    [][lastOp'.op = "addUser" =>
          /\ master # None => master' = master
          /\ lead # None => lead' = lead
          /\ Len(users) = 0 => master' = lastOp'.id /\ lead' = lastOp'.id]_vars

\* No two entries of the participant list have the same identity.
UniqueIds == \A i, j \in 1..Len(users) : users[i].id = users[j].id => i = j

\* C3: the participant list never holds two entries of one identity; a join
\* of an identity that has an entry leaves that identity's one entry on the
\* new connection, and no removeUser is sent for the replacement.
C3_ReplaceNotDuplicate ==
    /\ []UniqueIds
    /\ [][(lastOp'.op = "addUser" /\ HasUser(users, lastOp'.id)) =>
             /\ users'[FindIndex(users', lastOp'.id)].conn = lastOp'.conn
             /\ Len(users') = Len(users)
             /\ ~SentType(sent', "removeUser")]_vars

\* A replacement join happened with another participant connected.
C3_Witness ==
    /\ lastOp.op = "addUser"
    /\ lastOp.replaced
    /\ SentType(sent, "addUser")

\* C4: on a join the new connection's first message is the snapshot, it shows
\* the joiner waiting and the roles as the join left them; the new connection
\* gets nothing else from the join, and every other participant with an open
\* connection gets addUser, then updateMaster and updateLead where the join
\* set the role.
C4_JoinMessages ==
    [][lastOp'.op = "addUser" =>
          LET c == lastOp'.conn
              userId == lastOp'.id
              deltas == <<[type |-> "addUser",
                           user |-> RoomUser(NewUserEntry(userId, c))]>>
                        \o (IF master = None
                            THEN <<[type |-> "updateMaster", master |-> master']>>
                            ELSE <<>>)
                        \o (IF lead = None
                            THEN <<[type |-> "updateLead", lead |-> lead']>>
                            ELSE <<>>)
          IN  /\ Len(sent') >= 1
              /\ sent'[1].to = c
              /\ sent'[1].ev.type = "update"
              /\ \E i \in 1..Len(sent'[1].ev.userStatuses) :
                    sent'[1].ev.userStatuses[i] = [userId |-> userId, status |-> "waiting"]
              /\ sent'[1].ev.master = master'
              /\ sent'[1].ev.lead = lead'
              /\ Len(EventsTo(sent', c)) = 1
              /\ \A i \in 1..Len(users') :
                    (users'[i].id # userId /\ IsOpen(conns', users'[i].conn))
                        => EventsTo(sent', users'[i].conn) = deltas]_vars

\* A join that took the master role while another participant was connected.
C4_Witness ==
    /\ lastOp.op = "addUser"
    /\ master = lastOp.id
    /\ SentType(sent, "addUser")
    /\ SentType(sent, "updateMaster")

\* C5: when removeUser takes out the holder of a role, the role goes to the
\* first remaining participant, or is unset when none remains, and the
\* remaining participants get updateMaster, updateLead, removeUser in that
\* order; a role the removed participant did not hold stays and has no event.
C5_RemoveReassignsRoles ==
    [][(lastOp'.op = "removeUser" /\ HasUser(users, lastOp'.id)) =>
          LET userId == lastOp'.id
              rest == Others(users, userId)
              first == IF Len(rest) > 0 THEN rest[1].id ELSE None
              events == (IF master = userId
                         THEN <<[type |-> "updateMaster", master |-> first]>>
                         ELSE <<>>)
                        \o (IF lead = userId
                            THEN <<[type |-> "updateLead", lead |-> first]>>
                            ELSE <<>>)
                        \o <<[type |-> "removeUser",
                              user |-> RoomUser(users[FindIndex(users, userId)])]>>
          IN  /\ users' = rest
              /\ master' = (IF master = userId THEN first ELSE master)
              /\ lead' = (IF lead = userId THEN first ELSE lead)
              /\ \A i \in 1..Len(rest) :
                    IsOpen(conns', rest[i].conn)
                        => EventsTo(sent', rest[i].conn) = events
              /\ \A k \in 1..Len(sent') :
                    \E i \in 1..Len(rest) : rest[i].conn = sent'[k].to]_vars

\* The master left while two participants remained connected.
C5_Witness ==
    /\ lastOp.op = "removeUser"
    /\ lastOp.found
    /\ Len(users) >= 2
    /\ SentType(sent, "updateMaster")
    /\ SentType(sent, "removeUser")

\* C6: removeUser of an identity without an entry changes nothing and sends
\* nothing, so a second removeUser of the same identity right after a first
\* one does nothing.
C6_RemoveAbsentIsNoop ==
    [][(/\ lastOp'.op = "removeUser"
        /\ \/ ~HasUser(users, lastOp'.id)
           \/ (lastOp.op = "removeUser" /\ lastOp.id = lastOp'.id))
          => (sent' = <<>> /\ UNCHANGED roomVars)]_vars

\* A close arrived for an identity that had no entry, others being connected.
C6_Witness ==
    /\ lastOp.op = "removeUser"
    /\ ~lastOp.found
    /\ \E i \in 1..Len(users) : IsOpen(conns, users[i].conn)

\* The commands only the master may issue, and those the lead may issue too.
MasterCommandTypes == {"updateStatus", "updateMaster", "updateLead", "resetScoreboard"}
LeadCommandTypes == {"clearSuggestions", "updateAutoExit"}

\* C7: a role-gated command from a sender without the role changes nothing
\* and sends nothing.
C7_UnauthorizedIsNoop ==
    [][(\/ CommandStep(MasterCommandTypes) /\ master # lastOp'.id
        \/ CommandStep(LeadCommandTypes) /\ master # lastOp'.id /\ lead # lastOp'.id)
          => (sent' = <<>> /\ UNCHANGED <<roomVars, conns, crashed>>)]_vars

\* A participant who is not the master asked for another room status while
\* the master was connected.
C7_Witness ==
    /\ lastOp.op = "cmd"
    /\ lastOp.cmd.type = "updateStatus"
    /\ lastOp.cmd.status # status
    /\ master # lastOp.id
    /\ HasUser(users, lastOp.id)
    /\ \E i \in 1..Len(users) : users[i].id = master /\ IsOpen(conns, users[i].conn)

\* The commands that ask for nothing but a participant entry.
ParticipantCommandTypes ==
    {"addChatMessage", "updateUserStatus", "startGameplay", "finishGameplay"}

\* C8: a participant command from an identity without an entry sends nothing
\* and leaves results, statuses, scoreboard and room status alone.
C8_NonParticipantIsNoop ==
    [][(CommandStep(ParticipantCommandTypes) /\ ~HasUser(users, lastOp'.id))
          => (sent' = <<>>
              /\ UNCHANGED <<results, users, scoreboardSections, status>>)]_vars

\* C9: level and levelOptions change only by an updateLevel of the lead while
\* the room is selecting; any other updateLevel changes neither and sends
\* nothing.
C9_LevelChangesOnlyByLeadSelecting ==
    [][/\ (level' # level \/ levelOptions' # levelOptions)
            => (/\ CommandStep({"updateLevel"})
                /\ lead = lastOp'.id
                /\ status = "selecting")
       /\ (CommandStep({"updateLevel"}) /\ ~(lead = lastOp'.id /\ status = "selecting"))
            => (sent' = <<>> /\ level' = level /\ levelOptions' = levelOptions)]_vars

\* The lead asked for a level while a round was being played, another
\* participant being connected.
C9_Witness ==
    /\ lastOp.op = "cmd"
    /\ lastOp.cmd.type = "updateLevel"
    /\ lead = lastOp.id
    /\ status = "playing"
    /\ level = None
    /\ \E i \in 1..Len(users) : users[i].id # lead /\ IsOpen(conns, users[i].conn)

\* C10: results holds at most one entry per userId.
C10_OneResultPerUser ==
    \A i, j \in 1..Len(results) : results[i].userId = results[j].userId => i = j

\* Whether the step into the primed state is a round start: the master's
\* updateStatus with status playing.
RoundStartStep ==
    /\ CommandStep({"updateStatus"})
    /\ lastOp'.cmd.status = "playing"
    /\ master = lastOp'.id

\* C11: a round start leaves results empty, turns every skipped participant
\* to waiting and leaves every other participant's status as it was; no step
\* other than a round start empties results.
C11_RoundStartClears ==
    [][/\ RoundStartStep =>
            /\ results' = <<>>
            /\ Len(users') = Len(users)
            /\ \A i \in 1..Len(users) :
                  /\ users'[i].id = users[i].id
                  /\ users'[i].conn = users[i].conn
                  /\ users'[i].status # "skipped"
                  /\ users'[i].status = (IF users[i].status = "skipped"
                                         THEN "waiting"
                                         ELSE users[i].status)
       /\ (results # <<>> /\ results' = <<>>) => RoundStartStep]_vars

\* A round started after a finish had filled the scoreboard, with a
\* participant connected to hear of it.
C11_Witness ==
    /\ lastOp.op = "cmd"
    /\ lastOp.cmd.type = "updateStatus"
    /\ lastOp.cmd.status = "playing"
    /\ status = "playing"
    /\ results = <<>>
    /\ Len(scoreboardSections) > 0
    /\ Len(scoreboardSections[1].scores) > 0
    /\ SentType(sent, "startRound")

\* C12: the round identifier a round start broadcasts differs from the
\* identifier of every earlier round start, whatever time passed in between.
C12_RoundIdsDistinct ==
    [][RoundStartStep =>
          \A k \in 1..Len(sent') :
              sent'[k].ev.type = "startRound" => sent'[k].ev.state \notin roundStates]_vars

\* C13: at most one forced-finish timer is pending, one is pending only
\* while the room is playing, and a step in which status leaves playing
\* leaves no timer pending.
C13_TimerOnlyWhilePlaying ==
    /\ [](Cardinality(pendingTimers) <= 1)
    /\ [](pendingTimers # {} => status = "playing")
    /\ [][(status = "playing" /\ status' # "playing") => pendingTimers' = {}]_vars

\* C14: a timer that fires while the room is not playing changes nothing and
\* sends nothing.  A timer that forces a finish is the one the running round's
\* start armed: a round start leaves exactly the timer it arms pending, a
\* fresh one; no other step arms a timer; and the room's timer reference
\* changes only by a round start or by being unset.
C14_StaleTimerIsNoop ==
    [][/\ (lastOp'.op = "timer" /\ status # "playing") =>
            /\ sent' = <<>>
            /\ UNCHANGED <<users, master, lead, status, level, levelOptions,
                           suggestions, autoExit, scoreboardSections, results,
                           forceFinishTimer, history, conns, crashed>>
       /\ (lastOp'.op = "timer" /\ status = "playing") =>
            lastOp'.timer = forceFinishTimer
       /\ RoundStartStep =>
            /\ pendingTimers' = {forceFinishTimer'}
            /\ forceFinishTimer' \notin pendingTimers
       /\ ~RoundStartStep =>
            /\ pendingTimers' \subseteq pendingTimers
            /\ forceFinishTimer' \in {forceFinishTimer, None}]_vars

\* The timer of an abandoned round fired while the room was not playing,
\* a participant being connected.
C14_Witness ==
    /\ lastOp.op = "timer"
    /\ status # "playing"
    /\ forceFinishTimer = lastOp.timer
    /\ \E i \in 1..Len(users) : IsOpen(conns, users[i].conn)

\* The participants with status playing that have no entry in rs.
Unreported(us, rs) ==
    {i \in 1..Len(us) :
        us[i].status = "playing" /\ \A k \in 1..Len(rs) : rs[k].userId # us[i].id}

\* Whether the messages s bring connection c a snapshot with the given status.
SnapshotTo(s, c, st) ==
    \E k \in 1..Len(s) :
        s[k].to = c /\ s[k].ev.type = "update" /\ s[k].ev.status = st

\* C15: a step taken while the room is playing that leaves no playing
\* participant without a result, where one was left before it, finishes the
\* round: status is selecting after it and every participant with an open
\* connection gets the snapshot.
C15_AutoFinishWhenAllReported ==
    [][(/\ status = "playing"
        /\ Unreported(users, results) # {}
        /\ Unreported(users', results') = {})
          => /\ status' = "selecting"
             /\ \A i \in 1..Len(users') :
                   IsOpen(conns', users'[i].conn)
                       => SnapshotTo(sent', users'[i].conn, "selecting")]_vars

\* Whether b holds the entries of a, each as often, in some order.
SameEntries(a, b) ==
    /\ Len(a) = Len(b)
    /\ \E p \in Permutations(1..Len(a)) : \A i \in 1..Len(a) : b[i] = a[p[i]]

\* Whether the scoreboard sb is one section with one entry per result of rs,
\* in the order of rs.
ScoreboardLists(sb, rs) ==
    /\ Len(sb) = 1
    /\ Len(sb[1].scores) = Len(rs)
    /\ \A i \in 1..Len(rs) : sb[1].scores[i].userId = rs[i].userId

\* C16: the timer firing while the room is playing finishes the round in
\* that step with the results recorded so far: status is selecting, no result
\* is added or dropped, and the scoreboard has one entry per result.
C16_TimeoutFinishesWithPartialResults ==
    [][(lastOp'.op = "timer" /\ status = "playing")
          => /\ status' = "selecting"
             /\ SameEntries(results, results')
             /\ ScoreboardLists(scoreboardSections', results')]_vars

\* Whether the step into the primed state finishes a round: the room leaves
\* playing for selecting on a gameplay report or on the timer.
RoundFinishStep ==
    /\ status = "playing"
    /\ status' = "selecting"
    /\ \/ lastOp'.op = "timer"
       \/ CommandStep({"finishGameplay"})

\* Whether the scoreboard sb is one section that lists the results rs in
\* their order, each with its score as text.
ScoreboardShows(sb, rs) ==
    /\ Len(sb) = 1
    /\ Len(sb[1].scores) = Len(rs)
    /\ \A i \in 1..Len(rs) :
          /\ "arcadeScore" \in DOMAIN rs[i].result
          /\ sb[1].scores[i] = [userId |-> rs[i].userId,
                                value |-> ToString(rs[i].result.arcadeScore)]

\* What every round finish leaves besides the order of the scoreboard.
AfterFinish ==
    /\ ScoreboardShows(scoreboardSections', results')
    /\ status' = "selecting"
    /\ \A i \in 1..Len(users') : users'[i].status = "waiting"

\* C17 as stated: after every round finish the scoreboard lists the recorded
\* results with each score strictly greater than the next, status is selecting
\* and every participant is waiting.
C17_SortedStrictly ==
    [][RoundFinishStep =>
          /\ AfterFinish
          /\ \A i \in 1..(Len(results') - 1) :
                results'[i].result.arcadeScore > results'[i + 1].result.arcadeScore]_vars

\* C17 amended: after every round finish the scoreboard lists the recorded
\* results with each score greater than or equal to the next, status is
\* selecting and every participant is waiting.
C17_SortedDescending ==
    [][RoundFinishStep =>
          /\ AfterFinish
          /\ \A i \in 1..(Len(results') - 1) :
                results'[i].result.arcadeScore >= results'[i + 1].result.arcadeScore]_vars

\* The timer finished a round with two results of different scores, a
\* participant being connected.
C17_Witness ==
    /\ lastOp.op = "timer"
    /\ status = "selecting"
    /\ ~crashed
    /\ Len(results) = 2
    /\ results[1].result.arcadeScore > results[2].result.arcadeScore
    /\ ScoreboardShows(scoreboardSections, results)
    /\ \E i \in 1..Len(users) : IsOpen(conns, users[i].conn)

\* A joined the empty room on connection 1, B joined on connection 2, both
\* are connected, and the last step handled the k-th message of the run:
\* command cmd from connection c.
ScenarioAfter(k, c, cmd) ==
    /\ conns[1] = [owner |-> "A", state |-> "open"]
    /\ conns[2] = [owner |-> "B", state |-> "open"]
    /\ Len(users) = 2
    /\ users[1].id = "A" /\ users[1].conn = 1
    /\ users[2].id = "B" /\ users[2].conn = 2
    /\ nCommands = k
    /\ lastOp = [op |-> "cmd", id |-> conns[c].owner, conn |-> c, cmd |-> cmd]

\* The gameplay report with the given score.
Report(score) == [type |-> "finishGameplay", result |-> [arcadeScore |-> score]]

\* The round start of the run: the master's updateStatus playing is the first
\* message, handled with A and B in the room.
ScenarioStarted ==
    ScenarioAfter(1, 1, [type |-> "updateStatus", status |-> "playing"])

\* B's report of 200 is the third message of the run; a round has started
\* and results holds A's report of 100, so the first two messages were the
\* round start and then A's report.
ScenarioReported ==
    /\ ScenarioAfter(3, 2, Report(200))
    /\ roundStates # {}
    /\ \E i \in 1..Len(results) :
          results[i].userId = "A" /\ results[i].result = [arcadeScore |-> 100]

\* C18: in the run A joins, B joins, the master sets status playing, A
\* reports 100, B reports 200: the round start brings both startRound; after
\* A's report the room is still playing; after B's report the room is
\* selecting, the scoreboard is [B:200, A:100] and both got the snapshot with
\* status selecting.
C18_TwoPlayerRound ==
    /\ [](ScenarioStarted =>
             /\ SentType(EventsAsMessages(sent, 1), "startRound")
             /\ SentType(EventsAsMessages(sent, 2), "startRound"))
    /\ [][(ScenarioStarted /\ ScenarioAfter(2, 1, Report(100))')
             => status' = "playing"]_vars
    /\ [](ScenarioReported =>
             /\ status = "selecting"
             /\ scoreboardSections =
                    <<[title |-> "#SCOREBOARD", icon |-> "crown",
                       scores |-> <<[userId |-> "B", value |-> "200"],
                                    [userId |-> "A", value |-> "100"]>>]>>
             /\ SnapshotTo(sent, 1, "selecting")
             /\ SnapshotTo(sent, 2, "selecting"))

\* A gameplay report without its result, or whose result has no score.
Malformed(command) ==
    /\ command.type = "finishGameplay"
    /\ \/ "result" \notin DOMAIN command
       \/ "arcadeScore" \notin DOMAIN command.result

\* C19: a malformed command is dropped: the step that handles it leaves room
\* status, results, scoreboard, the participants and their statuses, and the
\* pending timer as they were.
C19_MalformedIsDropped ==
    [][(lastOp'.op = "cmd" /\ Malformed(lastOp'.cmd))
          => UNCHANGED <<status, results, scoreboardSections, users,
                         pendingTimers, forceFinishTimer>>]_vars

\* What the records of the history h say: room title, level and results.
Records(h) ==
    [i \in 1..Len(h) |->
        [roomName |-> h[i].roomName, level |-> h[i].level, results |-> h[i].results]]

\* Whether the history h1 still holds every record of h, behind the records
\* added since, saying what it said.
KeepsRecords(h, h1) ==
    /\ Len(h1) >= Len(h)
    /\ \A k \in 1..Len(h) : Records(h1)[Len(h1) - Len(h) + k] = Records(h)[k]

\* C20: a round finish with a level selected and a result recorded puts one
\* record of the room's title, the level and the round's results in front of
\* the history; a round finish without a level or without results adds none;
\* and no step changes what a record stored before it says.
C20_OneRecordPerRound ==
    [][/\ RoundFinishStep =>
            IF level # None /\ results' # <<>>
            THEN /\ Len(history') = Len(history) + 1
                 /\ history'[1].roomName = ResolvedTitle
                 /\ history'[1].level = level
                 /\ SameEntries(results', history'[1].results)
            ELSE Len(history') = Len(history)
       /\ KeepsRecords(history, history')]_vars

\* Whether the step's messages bring connection c an event of the given type.
Gets(c, type) == SentType(EventsAsMessages(sent', c), type)

\* Whether every participant with an open connection gets an event of the
\* given type from the step, one whose connection is not open being skipped.
AllOpenGet(type) ==
    \A i \in 1..Len(users') : IsOpen(conns', users'[i].conn) => Gets(users'[i].conn, type)

\* Whether the step handles a gameplay report that leaves a playing
\* participant unreported: the reporter alone is sent the snapshot.
IndividualFinishStep ==
    /\ CommandStep({"finishGameplay"})
    /\ "result" \in DOMAIN lastOp'.cmd
    /\ Unreported(users, results') # {}

\* C21: a step delivers messages to open connections only, and each kind of
\* delivery still reaches every participant whose connection is open when
\* another's is not: the broadcasts of chat, user status, suggestions,
\* results, joins and leaves, the snapshot of a round finish, the snapshot of
\* a join and the snapshot to a reporter.  A report whose sender's connection
\* is not open changes the room as any other report does.
C21_OnlyOpenHandlesReceive ==
    [][/\ \A k \in 1..Len(sent') : IsOpen(conns', sent'[k].to)
       /\ CommandStep({"addChatMessage"}) => AllOpenGet("addChatMessage")
       /\ CommandStep({"updateUserStatus", "startGameplay"})
            => AllOpenGet("updateUserStatus")
       /\ CommandStep({"addSuggestion"}) => AllOpenGet("updateSuggestions")
       /\ (CommandStep({"finishGameplay"}) /\ "result" \in DOMAIN lastOp'.cmd)
            => AllOpenGet("addResult")
       /\ (lastOp'.op = "removeUser" /\ HasUser(users, lastOp'.id))
            => AllOpenGet("removeUser")
       /\ lastOp'.op = "addUser" =>
            /\ Gets(lastOp'.conn, "update")
            /\ \A i \in 1..Len(users') :
                  (users'[i].id # lastOp'.id /\ IsOpen(conns', users'[i].conn))
                      => Gets(users'[i].conn, "addUser")
       /\ RoundFinishStep => AllOpenGet("update")
       /\ IndividualFinishStep =>
            /\ \A i \in 1..Len(users') :
                  (users'[i].id = lastOp'.id /\ IsOpen(conns', users'[i].conn))
                      => Gets(users'[i].conn, "update")
            /\ Len(results') = Len(results) + 1
            /\ UNCHANGED <<users, master, lead, status, level, levelOptions,
                           suggestions, autoExit, scoreboardSections,
                           forceFinishTimer, pendingTimers>>]_vars

\* A participant reported while another was still playing; the reporter's
\* connection was down, its close not yet handled, so the other participant
\* alone got the result.
C21_Witness ==
    /\ lastOp.op = "cmd"
    /\ lastOp.cmd.type = "finishGameplay"
    /\ conns[lastOp.conn].state = "closing"
    /\ \E i \in 1..Len(users) : users[i].conn = lastOp.conn
    /\ \E i \in 1..Len(users) : users[i].status = "playing"
    /\ SentType(sent, "addResult")
    /\ \A k \in 1..Len(sent) : sent[k].to # lastOp.conn

\* C22: a gameplay report or a timer expiry in a step that starts with a
\* status other than playing runs no round finish: it adds no history record,
\* leaves the scoreboard as it is and resets no participant's status.
C22_FinishOnlyWhilePlaying ==
    [][((CommandStep({"finishGameplay"}) \/ lastOp'.op = "timer") /\ status # "playing")
          => /\ Len(history') = Len(history)
             /\ scoreboardSections' = scoreboardSections
             /\ users' = users
             /\ status' = status]_vars

\* Whether the step handles the close of a connection whose identity's entry
\* is held by another connection, the one that replaced it.
ReplacedCloseStep ==
    /\ lastOp'.op = "removeUser"
    /\ \E i \in 1..Len(users) :
          users[i].id = lastOp'.id /\ users[i].conn # lastOp'.conn

\* C23: the close of a replaced connection removes no entry, changes neither
\* role and sends nothing; and every open connection's identity has a
\* participant entry, in every reachable state.
C23_OnlyCurrentConnectionRemoves ==
    /\ [][ReplacedCloseStep =>
             /\ users' = users
             /\ master' = master
             /\ lead' = lead
             /\ ~SentType(sent', "removeUser")]_vars
    /\ [](\A c \in Conns : IsOpen(conns, c) => HasUser(users, conns[c].owner))

\* C24: while the server runs and status is playing, a forced-finish timer is
\* pending, in every reachable state.
C24_PlayingHasTimer ==
    (~crashed /\ status = "playing") =>
        (forceFinishTimer # None /\ forceFinishTimer \in pendingTimers)

\* What the room's status, master and lead are.
RoomView == [status |-> status, master |-> master, lead |-> lead]

\* C25: for every participant whose connection is open, the last snapshot
\* delivered to the connection with the updateStatus, updateMaster and
\* updateLead events delivered after it applied gives the room's status,
\* master and lead, in every reachable state.
C25_ClientViewFollowsRoom ==
    \A i \in 1..Len(users) :
        IsOpen(conns, users[i].conn) => view[users[i].conn] = <<RoomView>>

\* Two participants with open connections, one of which joined before the
\* room's status and master changed and learned of both by events.
C25_Witness ==
    /\ Len(users) = 2
    /\ \A i \in 1..2 : IsOpen(conns, users[i].conn) /\ view[users[i].conn] = <<RoomView>>
    /\ status # "selecting"
    /\ master = users[2].id
    /\ lead = users[1].id
    /\ lastOp.op = "cmd"

\* C26: addUser runs for a connection only when the requested room is in
\* the registry, the ticket presented was issued by a room-join request and
\* the signature stored with the ticket verifies against the stored body; a
\* rejected connection is closed with the room untouched, and no command or
\* close of it is ever handled.
C26_AdmittedOnlyWhenVerified ==
    [][/\ lastOp'.op = "addUser" =>
            /\ lastOp'.room \in Rooms
            /\ lastOp'.session \in Tickets
            /\ sessions[lastOp'.session] # <<>>
            /\ VerifySonolusSignature(
                   FromBase64(sessions[lastOp'.session][1].authentication),
                   sessions[lastOp'.session][1].signature)
       /\ lastOp'.op = "reject" =>
            /\ conns'[lastOp'.conn].state = "rejected"
            /\ sent' = <<>>
            /\ UNCHANGED roomVars
       /\ lastOp'.op \in {"cmd", "removeUser"} =>
            conns[lastOp'.conn].state # "rejected"]_vars

====
